---- MODULE Spec2Model ----
(***************************************************************************)
(* State-machine model of the cycle engine of arr-missing-content           *)
(* (src/main.py): the per-category search ledger, the candidate fetch, the *)
(* filter / completion check, the batch dispatch and the scheduler loop.   *)
(*                                                                         *)
(* Timestamps are integers (clock units of one day).  The code stores      *)
(* datetime.now().isoformat() as TEXT and orders by that text; ISO-8601    *)
(* text of naive datetimes orders exactly as the instants do and           *)
(* fromisoformat() reads back what isoformat() wrote, so the ledger is     *)
(* modelled as a map id -> integer instant.                                *)
(***************************************************************************)
EXTENDS Integers, Sequences, FiniteSets, TLC

\* ------------------------------------------------------------------ bounds
MaxTime == 2

\* how many ledger storage operations fail in a behaviour explored
MaxStorageFailures == 2

\* how many search commands fail in a behaviour explored
MaxPostFailures == 1

IDs == {5, 7, 9}

Apps == {"sonarr", "radarr"}

\* the configurations explored: the category whose URL and API key are set,
\* its <APP>_LIMIT (any int parses, also a negative one), its
\* <APP>_CUTOFF_LIMIT and REQUEST_DELAY_SECONDS
Cfg(app, limit, cutoff_limit, delay) ==
    [app |-> app, limit |-> limit, cutoff_limit |-> cutoff_limit, delay |-> delay]

Configs ==
    {Cfg("sonarr", 2, 0, 2), Cfg("sonarr", 1, 1, 0), Cfg("sonarr", -1, 1, 2),
     Cfg("sonarr", 0, 0, 0), Cfg("radarr", 2, 1, 2), Cfg("radarr", 1, 0, 0),
     Cfg("radarr", -1, 0, 2), Cfg("radarr", 0, 1, 2)}

\* the candidate set of the end-to-end scenario (limit 2, three runs)
ScenarioCandidates == {5, 7, 9}

\* ------------------------------------------------------- program constants
MAX_CYCLE_DAYS == 1

\* an absent row of a ledger table
NoRow == -1

\* ------------------------------------------------------------------- state
VARIABLES
    enabled,                \* {app : <APP>_ENABLED}
    LIMIT,                  \* app -> <APP>_LIMIT
    CUTOFF_LIMIT,           \* app -> <APP>_CUTOFF_LIMIT
    REQUEST_DELAY_SECONDS,
    now,                    \* datetime.now()
    ledger,                 \* app -> (id -> timestamp | NoRow): table <app>_searches
    pc,                     \* position of the single thread of control
    todo,                   \* job(): categories still to run in this tick
    app_name,               \* run_cycle: its argument
    all_candidates,         \* run_cycle: result of get_combined_content
    batch_to_search,        \* run_cycle / trigger_search: item_ids
    idx,                    \* trigger_search: position of item_id in item_ids
    storage_error,          \* the step just taken logged a ledger storage error
    fetched,                \* history: the answers the fetch step just taken consumed
    candidates,             \* history: the candidate set the current run fetched
    events,                 \* history: wipes and dispatch steps of the current run, in order
    startLedger,            \* history: ledger of app_name when the run started
    submitted,              \* history: app -> id -> successful submissions since the last wipe (capped)
    scenarioRun,            \* history: runs started, while limit = 2 and every fetch gave {5, 7, 9}; else -1
    scenarioNet,            \* history: the safety net fired during those runs
    cycRun,                 \* history: runs started, while limit >= 1, the fetches gave one constant
                            \*   non-empty set, nothing failed and the safety net did not fire; else -1
    cycC,                   \* history: that constant candidate set ({} before the first fetch)
    storageFailures,        \* history: how many ledger storage operations have failed
    postFailures            \* history: how many search commands have failed

vars == <<enabled, LIMIT, CUTOFF_LIMIT, REQUEST_DELAY_SECONDS, now, ledger, pc,
          todo, app_name, all_candidates, batch_to_search, idx, storage_error,
          fetched, candidates, events, startLedger, submitted, scenarioRun, scenarioNet, cycRun, cycC, storageFailures,
          postFailures>>

config == <<enabled, LIMIT, CUTOFF_LIMIT, REQUEST_DELAY_SECONDS>>

scenario == <<scenarioRun, scenarioNet>>

cyc == <<cycRun, cycC>>

\* ----------------------------------------------------------------- helpers
Range(s) == {s[i] : i \in 1..Len(s)}

Min(S) == CHOOSE x \in S : \A y \in S : x <= y

Cap2(n) == IF n >= 2 THEN 2 ELSE n

\* the least r with r * d >= n, for d >= 1
CeilDiv(n, d) == (n + d - 1) \div d

\* all orderings of a finite set, as sequences without repetition
Perms(S) == {s \in [1..Cardinality(S) -> S] : Range(s) = S}

EmptyTable == [i \in IDs |-> NoRow]

\* one history entry; id = 0 and cmd = "" where they do not apply
Ev(t, id, ok, cmd) == [t |-> t, id |-> id, ok |-> ok, cmd |-> cmd]

\* what a fetch step consumed: per sub-query, whether the service answered
\* with a well-formed listing and the ids that listing names
FetchLog(valid, mok, mids, cok, cids) ==
    [valid |-> valid, missing_ok |-> mok, missing_ids |-> mids,
     cutoff_ok |-> cok, cutoff_ids |-> cids]

NoFetch == FetchLog(FALSE, FALSE, <<>>, FALSE, <<>>)

\* ------------------------------------------------------------------ ledger
\* SELECT id FROM <table>
TableIds(tbl) == {i \in IDs : tbl[i] # NoRow}

\* mutant: the read always degrades to the empty set
get_searched_ids_lost(tbl, readOk) == {}

\* get_searched_ids: the ids of the table, or the empty set when the read fails
get_searched_ids(tbl, readOk) == IF readOk THEN TableIds(tbl) ELSE {}

\* mutant: the insert is never committed
add_searched_id_nocommit(tbl, item_id, stamp, ok) == tbl

\* mutant: INSERT OR REPLACE, which overwrites the timestamp of an existing row
add_searched_id_replace(tbl, item_id, stamp, ok) ==
    IF ok THEN [tbl EXCEPT ![item_id] = stamp] ELSE tbl

\* INSERT OR IGNORE INTO <table> (id, timestamp): id is the PRIMARY KEY, so a
\* row that exists is left alone; a failed statement changes nothing
add_searched_id(tbl, item_id, stamp, ok) ==
    IF ok /\ tbl[item_id] = NoRow THEN [tbl EXCEPT ![item_id] = stamp] ELSE tbl

\* mutant: the DELETE is never committed
wipe_table_nocommit(tbl, ok) == tbl

\* DELETE FROM <table>; a failed statement changes nothing
wipe_table(tbl, ok) == IF ok THEN EmptyTable ELSE tbl

\* SELECT timestamp ... ORDER BY timestamp ASC LIMIT 1 (table not empty)
OldestTimestamp(tbl) == Min({tbl[i] : i \in TableIds(tbl)})

\* mutant: the age test is >= instead of >
CycleExpired_ge(tbl, clock) ==
    /\ TableIds(tbl) # {}
    /\ clock - OldestTimestamp(tbl) >= MAX_CYCLE_DAYS

\* the test of check_safety_net: a row exists and now - oldest > MAX_CYCLE_DAYS
CycleExpired(tbl, clock) ==
    /\ TableIds(tbl) # {}
    /\ clock - OldestTimestamp(tbl) > MAX_CYCLE_DAYS

\* -------------------------------------------------------------------- Init
Init ==
    /\ \E c \in Configs :
         /\ enabled = {c.app}
         /\ LIMIT = [a \in Apps |-> c.limit]
         /\ CUTOFF_LIMIT = [a \in Apps |-> c.cutoff_limit]
         /\ REQUEST_DELAY_SECONDS = c.delay
         /\ scenarioRun = IF c.limit = 2 THEN 0 ELSE -1
         /\ cycRun = IF c.limit >= 1 THEN 0 ELSE -1
    /\ cycC = {}
    /\ now = 0
    /\ ledger = [a \in Apps |-> EmptyTable]
    /\ pc = "idle"
    /\ todo = <<>>
    /\ app_name = "sonarr"
    /\ all_candidates = <<>>
    /\ batch_to_search = <<>>
    /\ idx = 0
    /\ storage_error = FALSE
    /\ fetched = NoFetch
    /\ candidates = {}
    /\ events = <<>>
    /\ startLedger = EmptyTable
    /\ submitted = [a \in Apps |-> [i \in IDs |-> 0]]
    /\ scenarioNet = FALSE
    /\ storageFailures = 0
    /\ postFailures = 0

\* --------------------------------------------------------------- scheduler
\* the clock advances while the scheduler loop waits for the next tick; a
\* run is short against the clock unit
Tick ==
    /\ pc = "idle"
    /\ now < MaxTime
    /\ now' = now + 1
    /\ UNCHANGED <<config, scenario, cyc, ledger, pc, todo, app_name, all_candidates,
                   batch_to_search, idx, storage_error, fetched, candidates,
                   events, startLedger, submitted, storageFailures,
                   postFailures>>

\* job(): sonarr first, then radarr, each only if enabled
job ==
    /\ pc = "idle"
    /\ pc' = "job"
    /\ todo' = SelectSeq(<<"sonarr", "radarr">>, LAMBDA a : a \in enabled)
    /\ UNCHANGED <<config, scenario, cyc, now, ledger, app_name, all_candidates,
                   batch_to_search, idx, storage_error, fetched, candidates,
                   events, startLedger, submitted, storageFailures,
                   postFailures>>

\* job() calls run_cycle for the next enabled category
run_cycle ==
    /\ pc = "job"
    /\ todo # <<>>
    /\ app_name' = Head(todo)
    /\ todo' = Tail(todo)
    /\ pc' = "safety"
    /\ all_candidates' = <<>>
    /\ batch_to_search' = <<>>
    /\ idx' = 0
    /\ storage_error' = FALSE
    /\ fetched' = NoFetch
    /\ candidates' = {}
    /\ events' = <<>>
    /\ startLedger' = ledger[Head(todo)]
    /\ scenarioRun' = IF scenarioRun \in {0, 1, 2} THEN scenarioRun + 1 ELSE -1
    /\ scenarioNet' = (scenarioNet /\ scenarioRun' # -1)
    /\ cycRun' = IF cycRun = 0 \/ (cycRun >= 1 /\ cycC # {}
                              /\ cycRun <= CeilDiv(Cardinality(cycC), LIMIT[Head(todo)]))
                    THEN cycRun + 1 ELSE -1
    /\ cycC' = IF cycRun' = -1 THEN {} ELSE cycC
    /\ UNCHANGED <<config, now, ledger, submitted, storageFailures,
                   postFailures>>

\* job() has run every enabled category and returns to the scheduler loop;
\* the locals of the last run are gone
job_finished ==
    /\ pc = "job"
    /\ todo = <<>>
    /\ pc' = "idle"
    /\ all_candidates' = <<>>
    /\ batch_to_search' = <<>>
    /\ idx' = 0
    /\ storage_error' = FALSE
    /\ fetched' = NoFetch
    /\ candidates' = {}
    /\ events' = <<>>
    /\ startLedger' = EmptyTable
    /\ UNCHANGED <<config, scenario, cyc, now, ledger, todo, app_name, submitted, storageFailures,
                   postFailures>>

\* the history of the constant-candidate cycle ends at a step that breaks
\* its conditions
CycAfter(broken) ==
    /\ cycRun' = IF broken THEN -1 ELSE cycRun
    /\ cycC' = IF broken THEN {} ELSE cycC

\* a ledger storage operation may fail in this step
CanFail == storageFailures < MaxStorageFailures

\* ------------------------------------------------------------- safety net
\* the per-category history of submissions restarts at a wipe that commits
ResetOnWipe(h, a, wiped) == IF wiped THEN [h EXCEPT ![a] = [i \in IDs |-> 0]] ELSE h

\* check_safety_net(table_name): step 1 of run_cycle
check_safety_net ==
    /\ pc = "safety"
    /\ \E readOk \in BOOLEAN, wipeOk \in BOOLEAN :
         LET tbl     == ledger[app_name]
             expired == readOk /\ CycleExpired(tbl, now)
             wiped   == expired /\ wipeOk
         IN  /\ (~expired => wipeOk)     \* a wipe can fail only where one is attempted
             /\ (~readOk \/ ~wipeOk) => CanFail
             /\ ledger' = [ledger EXCEPT ![app_name] =
                              IF expired THEN wipe_table(tbl, wipeOk) ELSE tbl]
             /\ events' = IF expired
                            THEN Append(events, Ev("safety_wipe", 0, wipeOk, ""))
                            ELSE events
             /\ submitted' = ResetOnWipe(submitted, app_name, wiped)
             /\ storage_error' = (~readOk \/ ~wipeOk)
             /\ storageFailures' = storageFailures + (IF ~readOk \/ ~wipeOk THEN 1 ELSE 0)
             /\ scenarioNet' = (scenarioNet \/ (expired /\ scenarioRun # -1))
             /\ CycAfter(expired \/ ~readOk \/ ~wipeOk)
    /\ pc' = "fetch"
    /\ UNCHANGED <<config, now, todo, app_name, all_candidates,
                   batch_to_search, idx, fetched, candidates, startLedger,
                   scenarioRun, postFailures>>

\* --------------------------------------------------------- candidate fetch
\* id listings the services answer the missing query with
IdLists == {<<>>, <<5>>, <<7, 5>>, <<5, 7, 9>>}

\* id listings the services answer the cutoff query with
CutoffLists == {<<>>, <<7, 9>>, <<9, 5>>}

\* stands for an "id" that is a JSON array or object: it reads like any other
\* id, but a set cannot hold it
UnhashableId == 0

\* answers to a GET of a wanted/missing or wanted/cutoff endpoint:
\*   error   - transport error, timeout, non-2xx status or a body that is not JSON
\*   records - {"records": [{"id": ..}, ..]}
\*   list    - [{"id": ..}, ..]
\*   other   - JSON of another shape
\*   noid    - a listing with an item that has no "id"
EndpointResponses(lists) ==
    {[kind |-> "error", ids |-> <<>>], [kind |-> "other", ids |-> <<>>],
     [kind |-> "noid", ids |-> <<5>>]}
    \cup {[kind |-> k, ids |-> l] : k \in {"records", "list"}, l \in lists}
    \cup {[kind |-> "records", ids |-> <<UnhashableId>>]}

\* the sub-query succeeded: the service answered with a well-formed listing
EndpointOk(resp) == resp.kind \in {"records", "list"}

\* fetch_ids_from_endpoint: ids stays [] unless the listing is read completely
fetch_ids_from_endpoint(resp) ==
    IF resp.kind = "records" THEN resp.ids
    ELSE IF resp.kind = "list" THEN resp.ids
    ELSE <<>>

Movie(id, hasFile, monitored) == [id |-> id, hasFile |-> hasFile, monitored |-> monitored]

\* answers to GET /api/v3/movie (an absent hasFile or monitored reads as FALSE)
MovieResponses ==
    {[kind |-> "error", movies |-> <<>>], [kind |-> "other", movies |-> <<>>],
     [kind |-> "noid", movies |-> <<Movie(5, FALSE, TRUE)>>],
     [kind |-> "list", movies |-> <<Movie(5, TRUE, TRUE), Movie(7, FALSE, TRUE)>>],
     [kind |-> "list", movies |-> <<Movie(5, FALSE, FALSE), Movie(9, FALSE, TRUE)>>],
     [kind |-> "list", movies |-> <<Movie(UnhashableId, FALSE, TRUE)>>]}
    \cup {[kind |-> "list",
           movies |-> [i \in 1..Len(l) |-> Movie(l[i], FALSE, TRUE)]] : l \in IdLists}

MovieOk(resp) == resp.kind = "list"

\* [m['id'] for m in movies if not m.get('hasFile') and m.get('monitored')]
MissingMovies(movies) ==
    LET keep == SelectSeq(movies, LAMBDA m : ~m.hasFile /\ m.monitored)
    IN  [i \in 1..Len(keep) |-> keep[i].id]

\* mutant: a failed cutoff sub-query discards the missing ids as well
SonarrFinalIds_abort(mresp, cresp, cutoff_limit) ==
    IF cutoff_limit > 0 /\ ~EndpointOk(cresp) THEN <<>>
    ELSE fetch_ids_from_endpoint(mresp)
            \o (IF cutoff_limit > 0 THEN fetch_ids_from_endpoint(cresp) ELSE <<>>)

\* final_ids of get_combined_content for sonarr: both sub-queries are
\* wrapped by fetch_ids_from_endpoint
SonarrFinalIds(mresp, cresp, cutoff_limit) ==
    fetch_ids_from_endpoint(mresp)
        \o (IF cutoff_limit > 0 THEN fetch_ids_from_endpoint(cresp) ELSE <<>>)

\* final_ids of get_combined_content for radarr: the movie request, its
\* filter and the cutoff sub-query share one try block
RadarrFinalIds(mresp, cresp, cutoff_limit) ==
    IF ~MovieOk(mresp) THEN <<>>
    ELSE MissingMovies(mresp.movies)
            \o (IF cutoff_limit > 0 THEN fetch_ids_from_endpoint(cresp) ELSE <<>>)

\* set(final_ids) raises TypeError on an unhashable id; the call is outside
\* every try block of get_combined_content, run_cycle, job and main
SetRaises(final_ids) == UnhashableId \in Range(final_ids)

\* list(set(final_ids)): every id once, in the iteration order of a set,
\* which the language leaves open
ListOfSet(final_ids) == Perms(Range(final_ids))

\* mutant: no early return on an empty candidate list
AfterFetch_noreturn(lst) == "filter"

\* if not all_candidates: return
AfterFetch(lst) == IF lst = <<>> THEN "job" ELSE "filter"

\* get_combined_content: step 2 of run_cycle, with the test for no candidates
get_combined_content ==
    /\ pc = "fetch"
    /\ \E cresp \in EndpointResponses(CutoffLists) :
        \E mresp \in (IF app_name = "sonarr" THEN EndpointResponses(IdLists)
                                              ELSE MovieResponses) :
         LET cl        == CUTOFF_LIMIT[app_name]
             final_ids == IF app_name = "sonarr"
                            THEN SonarrFinalIds(mresp, cresp, cl)
                            ELSE RadarrFinalIds(mresp, cresp, cl)
             mok       == IF app_name = "sonarr" THEN EndpointOk(mresp) ELSE MovieOk(mresp)
             mids      == IF ~mok THEN <<>>
                          ELSE IF app_name = "sonarr" THEN mresp.ids
                          ELSE MissingMovies(mresp.movies)
             cok       == cl > 0 /\ EndpointOk(cresp)
         IN  IF SetRaises(final_ids)
               THEN /\ pc' = "crashed"        \* the exception ends the process
                    /\ all_candidates' = <<>>
                    /\ fetched' = NoFetch
               ELSE /\ all_candidates' \in ListOfSet(final_ids)
                    /\ fetched' = FetchLog(TRUE, mok, mids, cok,
                                           IF cok THEN cresp.ids ELSE <<>>)
                    /\ pc' = AfterFetch(all_candidates')
    /\ candidates' = Range(all_candidates')
    /\ scenarioRun' = IF candidates' = ScenarioCandidates THEN scenarioRun ELSE -1
    /\ scenarioNet' = (scenarioNet /\ scenarioRun' # -1)
    /\ cycRun' = IF cycRun >= 1 /\ candidates' # {} /\ (cycRun = 1 \/ candidates' = cycC)
                    THEN cycRun ELSE -1
    /\ cycC' = IF cycRun' = -1 THEN {} ELSE candidates'
    /\ storage_error' = FALSE
    /\ UNCHANGED <<config, now, ledger, todo, app_name, batch_to_search, idx,
                   events, startLedger, submitted, storageFailures,
                   postFailures>>

\* ------------------------------------------------- filter and completion
\* mutant: the slice takes a single item
SliceTo_single(lst, limit) ==
    SubSeq(lst, 1, IF limit # 0 /\ Len(lst) > 0 THEN 1 ELSE 0)

\* mutant: the slice takes one item too many
SliceTo_plus1(lst, limit) ==
    SubSeq(lst, 1, IF limit + 1 < Len(lst) THEN limit + 1 ELSE Len(lst))

\* target_list[:limit] with the slicing rule of the language: a negative
\* limit counts from the end of the list
SliceTo(lst, limit) ==
    LET n == IF limit >= 0
               THEN (IF limit < Len(lst) THEN limit ELSE Len(lst))
               ELSE (IF Len(lst) + limit > 0 THEN Len(lst) + limit ELSE 0)
    IN  SubSeq(lst, 1, n)

\* mutant: the candidates are not filtered against the ledger
TargetList_unfiltered(lst, searched_ids) == lst

\* [id for id in all_candidates if id not in searched_ids]
TargetList(lst, searched_ids) ==
    SelectSeq(lst, LAMBDA i : i \notin searched_ids)

\* mutant: the completion check forgets to test that nothing is left
CycleComplete_anysearched(target_list, searched_ids) ==
    Cardinality(searched_ids) > 0

\* mutant: the completion check needs more than one searched id
CycleComplete_gt1(target_list, searched_ids) ==
    target_list = <<>> /\ Cardinality(searched_ids) > 1

\* the completion check: nothing left to search and something was searched
CycleComplete(target_list, searched_ids) ==
    target_list = <<>> /\ Cardinality(searched_ids) > 0

\* steps 3, 4 and 5 of run_cycle up to the call of trigger_search
filter_and_select ==
    /\ pc = "filter"
    /\ \E readOk \in BOOLEAN, wipeOk \in BOOLEAN :
         LET tbl          == ledger[app_name]
             searched_ids == get_searched_ids(tbl, readOk)
             target_list  == TargetList(all_candidates, searched_ids)
             complete     == CycleComplete(target_list, searched_ids)
             wiped        == complete /\ wipeOk
             batch        == SliceTo(target_list, LIMIT[app_name])
         IN  /\ (~complete => wipeOk)    \* a wipe can fail only where one is attempted
             /\ (~readOk \/ ~wipeOk) => CanFail
             /\ ledger' = [ledger EXCEPT ![app_name] =
                              IF complete THEN wipe_table(tbl, wipeOk) ELSE tbl]
             /\ events' = events \o
                    (IF readOk THEN <<>> ELSE <<Ev("read_failed", 0, FALSE, "")>>) \o
                    (IF complete THEN <<Ev("complete_wipe", 0, wipeOk, "")>> ELSE <<>>)
             /\ submitted' = ResetOnWipe(submitted, app_name, wiped)
             /\ storage_error' = (~readOk \/ ~wipeOk)
             /\ storageFailures' = storageFailures + (IF ~readOk \/ ~wipeOk THEN 1 ELSE 0)
             /\ CycAfter(~readOk \/ ~wipeOk)
             /\ batch_to_search' = IF target_list = <<>> THEN <<>> ELSE batch
             /\ idx' = IF target_list = <<>> \/ batch = <<>> THEN 0 ELSE 1
             /\ pc' = IF target_list = <<>> \/ batch = <<>> THEN "job" ELSE "post"
    /\ all_candidates' = <<>>
    /\ fetched' = NoFetch
    /\ UNCHANGED <<config, scenario, now, todo, app_name, candidates, startLedger,
                   postFailures>>

\* ---------------------------------------------------------- trigger_search
\* the name of the command in the payload of a category
Payload(app) ==
    IF app = "sonarr" THEN "EpisodeSearch"
    ELSE IF app = "radarr" THEN "MoviesSearch"
    ELSE ""

\* where control goes after the item at idx: the next item, or the return
\* of trigger_search and run_cycle
AfterItem == IF idx < Len(batch_to_search) THEN "post" ELSE "job"

\* mutant: a successful command is not recorded
AfterPost_norecord(ok) == [pc |-> AfterItem, idx |-> idx + 1]

\* mutant: the id is recorded whether the command succeeded or not
AfterPost_record(ok) == [pc |-> "record", idx |-> idx]

\* mutant: a failed command ends the batch
AfterPost_abort(ok) ==
    IF ok THEN [pc |-> "record", idx |-> idx] ELSE [pc |-> "job", idx |-> idx]

\* where control goes after the command for the item at idx: on success to
\* add_searched_id, on failure through the except clause to the next item
AfterPost(ok) ==
    IF ok THEN [pc |-> "record", idx |-> idx]
    ELSE [pc |-> AfterItem, idx |-> idx + 1]

\* requests.post(...) and raise_for_status() for item_ids[idx]; a failure
\* jumps to the except clause, which logs and goes on to the next item
post_command ==
    /\ pc = "post"
    /\ \E ok \in BOOLEAN :
         LET item_id == batch_to_search[idx]
         IN  /\ (~ok => postFailures < MaxPostFailures)
             /\ postFailures' = postFailures + (IF ok THEN 0 ELSE 1)
             /\ events' = Append(events, Ev("post", item_id, ok, Payload(app_name)))
             /\ submitted' = IF ok
                   THEN [submitted EXCEPT ![app_name][item_id] = Cap2(@ + 1)]
                   ELSE submitted
             /\ pc' = AfterPost(ok).pc
             /\ idx' = AfterPost(ok).idx
             /\ CycAfter(~ok)
    /\ storage_error' = FALSE
    /\ UNCHANGED <<config, scenario, now, ledger, todo, app_name, all_candidates,
                   batch_to_search, fetched, candidates, startLedger,
                   storageFailures>>

\* add_searched_id(table, item_id) after a successful command, then the test
\* of REQUEST_DELAY_SECONDS
record_searched ==
    /\ pc = "record"
    /\ \E ok \in BOOLEAN :
         LET item_id == batch_to_search[idx]
         IN  /\ ledger' = [ledger EXCEPT ![app_name] =
                              add_searched_id(@, item_id, now, ok)]
             /\ events' = Append(events, Ev("insert", item_id, ok, ""))
             /\ storage_error' = ~ok
             /\ (~ok => CanFail)
             /\ storageFailures' = storageFailures + (IF ok THEN 0 ELSE 1)
             /\ CycAfter(~ok)
    /\ pc' = IF REQUEST_DELAY_SECONDS > 0 THEN "sleep" ELSE AfterItem
    /\ idx' = IF REQUEST_DELAY_SECONDS > 0 THEN idx ELSE idx + 1
    /\ UNCHANGED <<config, scenario, now, todo, app_name, all_candidates,
                   batch_to_search, fetched, candidates, startLedger, submitted,
                   postFailures>>

\* time.sleep(REQUEST_DELAY_SECONDS), the last statement of the try block
pacing_sleep ==
    /\ pc = "sleep"
    /\ events' = Append(events, Ev("sleep", batch_to_search[idx], TRUE, ""))
    /\ pc' = AfterItem
    /\ idx' = idx + 1
    /\ storage_error' = FALSE
    /\ UNCHANGED <<config, scenario, cyc, now, ledger, todo, app_name, all_candidates,
                   batch_to_search, fetched, candidates, startLedger,
                   submitted, storageFailures,
                   postFailures>>

Next ==
    \/ Tick
    \/ job
    \/ run_cycle
    \/ job_finished
    \/ check_safety_net
    \/ get_combined_content
    \/ filter_and_select
    \/ post_command
    \/ record_searched
    \/ pacing_sleep

Spec == Init /\ [][Next]_vars

\* =================================================================== claims
\* the run of app_name has returned to job()
RunEnded == pc = "job" /\ Len(todo) < Cardinality(enabled)

\* the search requests of the current run, in order, and their ids
Posts == SelectSeq(events, LAMBDA e : e.t = "post")

PostIds == {Posts[k].id : k \in 1..Len(Posts)}

\* the ids in the ledger when the current run started
StartIds == {i \in IDs : startLedger[i] # NoRow}

\* the ids in the ledger of the current category now
LedgerIds == {i \in IDs : ledger[app_name][i] # NoRow}

HasEvent(t, ok) == \E k \in 1..Len(events) : events[k].t = t /\ events[k].ok = ok

\* the safety net of the current run wiped the ledger
SafetyWiped == HasEvent("safety_wipe", TRUE)

\* the ledger read of the filter step failed / the completion wipe failed
ReadFailed == HasEvent("read_failed", FALSE)

CompleteWipeFailed == HasEvent("complete_wipe", FALSE)

\* some entry of the ledger at the start of the run is older than
\* MAX_CYCLE_DAYS, i.e. the age of the oldest entry exceeds it
StartAgeExceeds == \E i \in IDs : startLedger[i] # NoRow /\ now - startLedger[i] > MAX_CYCLE_DAYS

\* ---- C1
\* C1 as stated: a run whose candidate set C (of any size) is a subset of
\* the searched set S at its start, S non-empty, ends with the ledger empty
\* and no search request issued.
C1_Original ==
    (RunEnded /\ StartIds # {} /\ candidates \subseteq StartIds)
        => (LedgerIds = {} /\ Posts = <<>>)

\* C1 amended: the same for a non-empty C, when the safety net does not wipe
\* the ledger and neither the ledger read nor the completion wipe fails.
C1_CompletionReset ==
    (RunEnded /\ candidates # {} /\ candidates \subseteq StartIds
        /\ ~SafetyWiped /\ ~ReadFailed /\ ~CompleteWipeFailed)
        => (LedgerIds = {} /\ Posts = <<>>)

C1_Witness ==
    /\ RunEnded /\ candidates # {} /\ candidates \subseteq StartIds
    /\ ~SafetyWiped /\ ~ReadFailed
    /\ HasEvent("complete_wipe", TRUE)
    /\ LedgerIds = {}

\* ---- C2
\* C2 as stated: in every run the ids handed to trigger_search are disjoint
\* from the ids in the ledger when the run started.
C2_Original == PostIds \cap StartIds = {}

\* C2 amended: the same for every run in which the safety net does not wipe
\* the ledger and the ledger read of the filter step does not fail.
C2_NoDuplicateSearch ==
    (~SafetyWiped /\ ~ReadFailed)
        => (Range(batch_to_search) \cap StartIds = {} /\ PostIds \cap StartIds = {})

C2_Witness ==
    /\ RunEnded /\ ~SafetyWiped /\ ~ReadFailed
    /\ StartIds # {} /\ PostIds # {}
    /\ candidates \cap StartIds # {}

\* ---- C3
\* C3: the number of search requests of a run never exceeds the configured
\* limit of the category, for every limit value and candidate set (a limit
\* below zero admits no request).
C3_BatchBound ==
    Len(Posts) <= (IF LIMIT[app_name] < 0 THEN 0 ELSE LIMIT[app_name])

\* ---- C4
\* C4 as stated: when a run starts with a ledger whose oldest entry is older
\* than MAX_CYCLE_DAYS the ledger is empty before the fetch begins; otherwise
\* the safety-net step leaves the ledger as it was.
C4_Original ==
    pc = "fetch" =>
        /\ StartAgeExceeds => LedgerIds = {}
        /\ ~StartAgeExceeds => ledger[app_name] = startLedger

\* C4 amended: the wipe is promised only when neither the oldest-timestamp
\* read nor the wipe of the safety-net step fails.
C4_SafetyNet ==
    pc = "fetch" =>
        /\ (StartAgeExceeds /\ ~storage_error) => LedgerIds = {}
        /\ ~StartAgeExceeds => ledger[app_name] = startLedger

C4_Witness ==
    /\ pc = "fetch" /\ StartAgeExceeds /\ ~storage_error
    /\ StartIds # {} /\ LedgerIds = {}

\* ---- C5
\* C5: while no ledger storage operation has failed, no id has had a search
\* request submitted successfully more than once since the last wipe of its
\* category's ledger.
C5_AtMostOncePerCycle ==
    storageFailures = 0 => \A a \in Apps : \A i \in IDs : submitted[a][i] <= 1

\* a later run dispatches while ids submitted by an earlier run of the same
\* cycle are still candidates
C5_Witness ==
    /\ storageFailures = 0
    /\ pc = "record"
    /\ StartIds # {} /\ candidates \cap StartIds # {}
    /\ \A i \in StartIds : submitted[app_name][i] = 1

\* ---- C6
\* the behaviour so far is the end-to-end scenario: limit 2, every fetch gave
\* {5, 7, 9}, the ledger was empty at first and nothing has failed
InScenario ==
    /\ scenarioRun >= 1
    /\ LIMIT[app_name] = 2
    /\ storageFailures = 0 /\ postFailures = 0

ScenarioOutcome ==
    /\ scenarioRun = 1 =>
          /\ Len(Posts) = 2 /\ Cardinality(PostIds) = 2
          /\ PostIds \subseteq ScenarioCandidates
          /\ \A k \in 1..Len(Posts) : Posts[k].ok
          /\ LedgerIds = PostIds
    /\ scenarioRun = 2 =>
          /\ Len(Posts) = 1
          /\ PostIds = ScenarioCandidates \ StartIds
          /\ Cardinality(StartIds) = 2
          /\ LedgerIds = ScenarioCandidates
    /\ scenarioRun = 3 =>
          /\ Posts = <<>>
          /\ StartIds = ScenarioCandidates
          /\ LedgerIds = {}

\* C6 as stated: in the scenario the first run searches 2 distinct ids of
\* {5, 7, 9} and leaves them in the ledger, the second searches the remaining
\* id and leaves {5, 7, 9}, the third searches nothing and wipes the ledger.
C6_Original == (RunEnded /\ InScenario) => ScenarioOutcome

\* C6 amended: the same when the safety net does not fire during the three
\* runs (they fall within MAX_CYCLE_DAYS of the first search).
C6_EndToEnd == (RunEnded /\ InScenario /\ ~scenarioNet) => ScenarioOutcome

C6_Witness ==
    /\ RunEnded /\ InScenario /\ ~scenarioNet
    /\ scenarioRun = 3
    /\ HasEvent("complete_wipe", TRUE)
    /\ LedgerIds = {}

\* ---- C7
\* C7: an add_searched_id for an id that already has a row leaves the whole
\* ledger as it was: one row for the id, with the timestamp of the first
\* insert.
C7_IdempotentInsert ==
    [][(pc = "record" /\ ledger[app_name][batch_to_search[idx]] # NoRow)
          => ledger' = ledger]_vars

\* a second insert has just committed at a later clock and the row still
\* carries the earlier timestamp
C7_Witness ==
    /\ events # <<>>
    /\ events[Len(events)].t = "insert" /\ events[Len(events)].ok
    /\ ledger[app_name][events[Len(events)].id] # NoRow
    /\ ledger[app_name][events[Len(events)].id] < now

\* ---- C8
\* the ids of the sub-queries the service answered well
AnsweredIds ==
    (IF fetched.missing_ok THEN Range(fetched.missing_ids) ELSE {})
        \cup (IF fetched.cutoff_ok THEN Range(fetched.cutoff_ids) ELSE {})

\* C8: for both categories a failed sub-query contributes nothing and the
\* other still counts: the fetch returns the duplicate-free union of the ids
\* of every sub-query that succeeded.
C8_SubQueryIndependence ==
    fetched.valid =>
        /\ candidates = AnsweredIds
        /\ (pc = "filter" => Cardinality(Range(all_candidates)) = Len(all_candidates))

\* ---- C9
\* C9: with cutoff inclusion enabled, when the cutoff sub-query fails and the
\* missing sub-query succeeds the candidate set is exactly the missing ids
\* and the run goes on to filter them.
C9_PartialFailure ==
    (fetched.valid /\ CUTOFF_LIMIT[app_name] > 0
        /\ fetched.missing_ok /\ ~fetched.cutoff_ok)
        => /\ candidates = Range(fetched.missing_ids)
           /\ (candidates # {} => pc = "filter" /\ Range(all_candidates) = candidates)

C9_Witness ==
    /\ fetched.valid /\ CUTOFF_LIMIT[app_name] > 0
    /\ fetched.missing_ok /\ ~fetched.cutoff_ok
    /\ app_name = "sonarr"
    /\ pc = "filter" /\ Cardinality(candidates) = 2

\* ---- C10
\* C10: with a delay above zero there is a pacing sleep between any two
\* consecutive search submissions of a batch, whether the first of the two
\* succeeded or failed.
C10_Pacing ==
    REQUEST_DELAY_SECONDS > 0 =>
        \A j, k \in 1..Len(events) :
            (j < k /\ events[j].t = "post" /\ events[k].t = "post")
                => \E m \in (j + 1)..(k - 1) : events[m].t = "sleep"

\* ---- C11
\* the dispatch loop of trigger_search is under way
InDispatch == pc \in {"post", "record", "sleep"}

\* C11: the search requests of a run are the ids of the batch, one request
\* each, in batch order, whatever the outcome of the earlier requests and
\* ledger writes; when the run ends every id of the batch has had its request.
C11_FailureIsolation ==
    /\ Len(Posts) <= Len(batch_to_search)
    /\ \A k \in 1..Len(Posts) : Posts[k].id = batch_to_search[k]
    /\ RunEnded => Len(Posts) = Len(batch_to_search)

\* the request for the first id failed and the second id got its request
C11_Witness ==
    /\ RunEnded
    /\ Len(batch_to_search) = 2 /\ Len(Posts) = 2
    /\ ~Posts[1].ok

\* ---- C12
\* C12: under every combination of transport, parse and storage errors a run
\* returns normally; no error ends the process.
C12_FailSoft == pc # "crashed"

\* ---- C13
\* C13: a ledger loses or changes entries only by a full wipe of the current
\* category, and only (a) in the safety-net step when an entry is older than
\* MAX_CYCLE_DAYS or (b) in the completion check when every fetched
\* candidate is in the non-empty ledger.
C13_WipeConditions ==
    [][\A a \in Apps :
          (\E i \in IDs : ledger[a][i] # NoRow /\ ledger'[a][i] # ledger[a][i])
          => /\ a = app_name
             /\ \A i \in IDs : ledger'[a][i] = NoRow
             /\ \/ /\ pc = "safety"
                   /\ \E i \in IDs : ledger[a][i] # NoRow
                                      /\ now - ledger[a][i] > MAX_CYCLE_DAYS
                \/ /\ pc = "filter"
                   /\ Range(all_candidates) \subseteq {i \in IDs : ledger[a][i] # NoRow}]_vars

\* a completion wipe has emptied a ledger of two or more ids
C13_Witness ==
    /\ RunEnded
    /\ HasEvent("complete_wipe", TRUE)
    /\ Cardinality(StartIds) >= 2
    /\ LedgerIds = {}

\* ---- C14
\* the ids in the ledger when the dispatch of the current run started: the
\* safety-net step is the only one before it that changes the ledger
BaseIds == IF SafetyWiped THEN {} ELSE StartIds

\* C14 as stated: when a run ends, every id whose insert committed in the
\* run is in the ledger and every id whose insert failed is not.
C14_Original ==
    RunEnded =>
        \A k \in 1..Len(events) :
            events[k].t = "insert" =>
                /\ events[k].ok => events[k].id \in LedgerIds
                /\ ~events[k].ok => events[k].id \notin LedgerIds

\* C14 amended: an id whose insert failed is not in the ledger afterwards
\* provided it had no row before that insert.
C14_InsertDurability ==
    RunEnded =>
        \A k \in 1..Len(events) :
            events[k].t = "insert" =>
                /\ events[k].ok => events[k].id \in LedgerIds
                /\ (~events[k].ok /\ events[k].id \notin BaseIds)
                       => events[k].id \notin LedgerIds

\* an insert committed, a later insert of the same run failed
C14_Witness ==
    /\ RunEnded
    /\ \E j, k \in 1..Len(events) :
          /\ j < k
          /\ events[j].t = "insert" /\ events[j].ok
          /\ events[k].t = "insert" /\ ~events[k].ok
          /\ events[j].id \in LedgerIds
          /\ events[k].id \notin LedgerIds

\* ---- C15
\* positions j < k of two consecutive search requests in the history
ConsecutivePosts(j, k) ==
    /\ j < k
    /\ events[j].t = "post" /\ events[k].t = "post"
    /\ \A m \in (j + 1)..(k - 1) : events[m].t # "post"

\* C15 as stated: when the request for a succeeded, the ledger write for a
\* is committed before the request for the next id b is sent.
C15_Original ==
    \A j, k \in 1..Len(events) :
        (ConsecutivePosts(j, k) /\ events[j].ok)
            => /\ \E m \in (j + 1)..(k - 1) :
                     events[m] = Ev("insert", events[j].id, TRUE, "")
               /\ events[j].id \in LedgerIds

\* C15 amended: the ledger write for a has been made before the request for
\* b is sent, and unless that write failed a is in the ledger from then on.
C15_RecordBeforeNext ==
    \A j, k \in 1..Len(events) :
        (ConsecutivePosts(j, k) /\ events[j].ok)
            => \E m \in (j + 1)..(k - 1) :
                  /\ events[m].t = "insert" /\ events[m].id = events[j].id
                  /\ events[m].ok => events[j].id \in LedgerIds

\* the second request has just been sent after a recorded first one
C15_Witness ==
    /\ Len(Posts) = 2 /\ Posts[1].ok
    /\ events[Len(events)].t = "post"
    /\ HasEvent("insert", TRUE)
    /\ Posts[1].id \in LedgerIds

\* ---- C16
\* the ids the current run has added to the ledger / has had accepted
AddedIds == LedgerIds \ BaseIds

OkPostIds == {Posts[k].id : k \in {n \in 1..Len(Posts) : Posts[n].ok}}

\* C16 as stated: at any point of a dispatch the ids added to the ledger by
\* the run are exactly the ids whose request was accepted in the run so far.
C16_Original == InDispatch => AddedIds = OkPostIds

\* C16 amended: every id added is one whose request was accepted, and every
\* accepted id is in the ledger except the one whose ledger write is still
\* to come and those whose ledger write failed.
C16_InterruptedBatch ==
    InDispatch =>
        /\ AddedIds \subseteq OkPostIds
        /\ \A i \in OkPostIds \ LedgerIds :
              \/ pc = "record" /\ i = batch_to_search[idx]
              \/ \E k \in 1..Len(events) : events[k] = Ev("insert", i, FALSE, "")

\* between two items: the first was accepted and recorded
C16_Witness ==
    /\ pc = "post" /\ idx = 2
    /\ OkPostIds = {batch_to_search[1]}
    /\ AddedIds = OkPostIds

\* ---- C17
\* C17: a run whose fetched candidate set is empty issues no search request
\* and leaves the ledger as the safety-net step of the run left it.
C17_EmptyFetchNoOp ==
    (RunEnded /\ candidates = {})
        => /\ Posts = <<>>
           /\ ledger[app_name] = (IF SafetyWiped THEN EmptyTable ELSE startLedger)

\* an empty fetch met a ledger with entries
C17_Witness ==
    /\ RunEnded /\ candidates = {}
    /\ StartIds # {} /\ ~SafetyWiped
    /\ ledger[app_name] = startLedger

\* ---- C18
\* a list without its repeated items, first occurrences kept
RECURSIVE Dedup(_)
Dedup(lst) ==
    IF lst = <<>> THEN <<>>
    ELSE LET front == Dedup(SubSeq(lst, 1, Len(lst) - 1))
             last  == lst[Len(lst)]
         IN  IF last \in Range(front) THEN front ELSE Append(front, last)

\* the candidates in order of first discovery: the missing answer, then the
\* cutoff ids not seen before
DiscoveryOrder == Dedup(fetched.missing_ids \o fetched.cutoff_ids)

\* the first min(n, |lst|) items of lst
FirstN(lst, n) ==
    SubSeq(lst, 1, IF n < 0 THEN 0 ELSE IF n < Len(lst) THEN n ELSE Len(lst))

\* C18: the batch a run dispatches is the first min(limit, |target|) ids of
\* target, the unsearched candidates in order of first discovery.
C18_BatchOrder ==
    [][(pc = "filter" /\ ~storage_error')
          => batch_to_search' =
                FirstN(SelectSeq(DiscoveryOrder,
                                 LAMBDA i : ledger[app_name][i] = NoRow),
                       LIMIT[app_name])]_vars

\* ---- C19
\* C19: every id in a ledger has had a search request accepted since the last
\* wipe of that ledger, and within a run no id enters the ledger unless its
\* request of that run was accepted.
C19_LedgerSoundness ==
    /\ \A a \in Apps : \A i \in IDs : ledger[a][i] # NoRow => submitted[a][i] >= 1
    /\ (InDispatch \/ RunEnded) => AddedIds \subseteq OkPostIds

\* a run with a failed request has ended: the failed id is not in the ledger,
\* an accepted one is
C19_Witness ==
    /\ RunEnded
    /\ AddedIds # {}
    /\ \E k \in 1..Len(Posts) : ~Posts[k].ok /\ Posts[k].id \notin LedgerIds

\* ---- C20
\* the run that has just ended is run number cycRun of an undisturbed cycle
\* over the constant candidate set cycC
InCycle == RunEnded /\ cycRun >= 1

\* C20: with a constant non-empty candidate set C, limit >= 1, a ledger empty
\* at first, no failure and no safety-net trigger, run k <= ceil(|C| / limit)
\* searches min(limit, remaining) new ids of C, after run ceil(|C| / limit)
\* every id of C has been searched exactly once, and the next run searches
\* nothing and wipes the ledger.
C20_CycleProgress ==
    InCycle =>
        LET n == Cardinality(cycC)
            l == LIMIT[app_name]
            r == CeilDiv(n, l)
            remaining == n - (cycRun - 1) * l
        IN  /\ cycRun <= r + 1
            /\ cycRun <= r =>
                  /\ Len(Posts) = (IF l < remaining THEN l ELSE remaining)
                  /\ Cardinality(PostIds) = Len(Posts)
                  /\ \A k \in 1..Len(Posts) : Posts[k].ok
                  /\ PostIds \subseteq cycC \ StartIds
                  /\ Cardinality(StartIds) = (cycRun - 1) * l
                  /\ LedgerIds = StartIds \cup PostIds
                  /\ \A i \in LedgerIds : submitted[app_name][i] = 1
            /\ cycRun = r => LedgerIds = cycC
            /\ cycRun = r + 1 =>
                  /\ Posts = <<>>
                  /\ StartIds = cycC
                  /\ HasEvent("complete_wipe", TRUE)
                  /\ LedgerIds = {}

\* three candidates, limit 1: the fourth run has wiped the ledger
C20_Witness ==
    /\ InCycle
    /\ Cardinality(cycC) = 3 /\ LIMIT[app_name] = 1
    /\ cycRun = 4
    /\ LedgerIds = {}

====
